---- MODULE Spec2Model ----
(***************************************************************************)
(* Model of src/src/wfes.c: main() and wfes(), the Wright-Fisher solver    *)
(* driver.  The external direct solver (pardiso_64) is a black box whose   *)
(* status and output vector are chosen nondeterministically; every call    *)
(* made to it is logged in `calls`.                                        *)
(*                                                                         *)
(* C doubles are modelled as exact rationals [num, den] with den > 0,      *)
(* extended by the IEEE-754 special values: den = 0 and num = 0 is NaN,    *)
(* den = 0 and num = 1 is +Inf, den = 0 and num = -1 is -Inf.  Rounding    *)
(* and the sign of zero are not modelled.                                  *)
(***************************************************************************)
EXTENDS Integers, Sequences, FiniteSets, TLC

VARIABLES pc, help, force, wf, generations_file, extinction_file,
          fixation_file, matrix_size, block_size, A, allocated, rhs, iparm,
          phase, error, calls, r, out, files, exit_status

vars == <<pc, help, force, wf, generations_file, extinction_file,
          fixation_file, matrix_size, block_size, A, allocated, rhs, iparm,
          phase, error, calls, r, out, files, exit_status>>

(***************************************************************************)
(* Bounds of the model.                                                    *)
(***************************************************************************)
\* population sizes 2..MaxSmallN are explored (besides the two sizes around
\* the population ceiling)
MaxSmallN == 60
\* the solver pipeline is explored for matrices of at most MaxDim rows
MaxDim == 3

(***************************************************************************)
(* Program constants.                                                      *)
(***************************************************************************)
MaxPopulationSize == 500000
BlockThreshold == 100
IparmSize == 64
PhaseAnalyze == 11
\* the phase left at its previous value
PhaseNotAdvanced == PhaseAnalyze
PhaseFactorize == 22
PhaseSolve == 33
PhaseRelease == -1
ModeForward == 0
ModeTranspose == 2

(***************************************************************************)
(* double arithmetic                                                       *)
(***************************************************************************)
Abs(x) == IF x < 0 THEN -x ELSE x
Sign(x) == IF x < 0 THEN -1 ELSE 1

RECURSIVE GCD(_, _)
GCD(a, b) == IF b = 0 THEN a ELSE GCD(b, a % b)

\* the double n/d, d > 0, in lowest terms
D(n, d) == LET g == GCD(Abs(n), d)
           IN  [num |-> n \div g, den |-> d \div g]

Zero == D(0, 1)
One == D(1, 1)
NaN == [num |-> 0, den |-> 0]
PosInf == [num |-> 1, den |-> 0]
NegInf == [num |-> -1, den |-> 0]
Inf(sign) == IF sign < 0 THEN NegInf ELSE PosInf

IsNaN(x) == x.den = 0 /\ x.num = 0
IsInf(x) == x.den = 0 /\ x.num # 0

\* a + b
DAdd(a, b) ==
  IF IsNaN(a) \/ IsNaN(b) THEN NaN
  ELSE IF IsInf(a) /\ IsInf(b) THEN (IF a.num = b.num THEN a ELSE NaN)
  ELSE IF IsInf(a) THEN a
  ELSE IF IsInf(b) THEN b
  ELSE D(a.num * b.den + b.num * a.den, a.den * b.den)

DNeg(a) == [num |-> -a.num, den |-> a.den]

\* a - b
DSub(a, b) == DAdd(a, DNeg(b))

\* a * b
DMul(a, b) ==
  IF IsNaN(a) \/ IsNaN(b) THEN NaN
  ELSE IF IsInf(a) \/ IsInf(b)
       THEN (IF a.num = 0 \/ b.num = 0 THEN NaN
             ELSE Inf(Sign(a.num) * Sign(b.num)))
  ELSE D(a.num * b.num, a.den * b.den)

\* a / b: a finite nonzero value over zero is an infinity, 0/0 is NaN
DDiv(a, b) ==
  IF IsNaN(a) \/ IsNaN(b) THEN NaN
  ELSE IF IsInf(a) THEN (IF IsInf(b) THEN NaN
                         ELSE Inf(Sign(a.num) * Sign(b.num)))
  ELSE IF IsInf(b) THEN Zero
  ELSE IF b.num = 0 THEN (IF a.num = 0 THEN NaN ELSE Inf(Sign(a.num)))
  ELSE D(a.num * b.den * Sign(b.num), a.den * Abs(b.num))

\* a < b: false when either side is NaN
DLt(a, b) ==
  IF IsNaN(a) \/ IsNaN(b) THEN FALSE
  ELSE IF IsInf(a) /\ IsInf(b) THEN a.num < b.num
  ELSE IF IsInf(a) THEN a.num < 0
  ELSE IF IsInf(b) THEN b.num > 0
  ELSE a.num * b.den < b.num * a.den

\* a <= b: false when either side is NaN
DLe(a, b) == ~IsNaN(a) /\ ~IsNaN(b) /\ ~DLt(b, a)

\* conversion of an integer to double
FromInt(n) == D(n, 1)

(***************************************************************************)
(* Inputs.                                                                 *)
(***************************************************************************)
PopulationSizes == (2 .. MaxSmallN) \cup {MaxPopulationSize, MaxPopulationSize + 1}
\* mutation rates on the command line: 0, 1/4 (the bound 1/(2N) of N = 2), 1/2
MutationRates == {Zero, D(1, 4), D(1, 2)}
Selections == {Zero}
Dominances == {D(1, 2)}

\* status codes the solver returns: 0 is success
Statuses == {0, -1}

\* entries of the raw vector the forward solve returns: below 0, inside
\* (0, 1), exactly 1, above 1
RawB1Values == {D(-1, 2), D(1, 2), One, D(3, 2)}
\* entries of the raw vector the transpose solve returns
RawNValues == {D(-1, 2), D(2, 1)}

Indices(n) == 0 .. (n - 1)
RawVectors(n, S) == [Indices(n) -> S]

\* the dummy double passed where the solver ignores b and x
ddum == << >>

(***************************************************************************)
(* wfes(): set-up                                                          *)
(***************************************************************************)
\* line 41
MatrixSize(N) == (2 * N) - 1

BlockSizeTenthAlways(n) == n \div 10
\* lines 58-63.  matrix_size * 0.1 converted to an integer truncates; for
\* n >= 0 that is n \div 10 (the double 0.1 is above 1/10 by less than 1e-17).
BlockSize(n) == IF n >= BlockThreshold THEN n \div 10 ELSE n

\* lines 81-84: rhs[i] = pow(1 - q_{i+1}, 2N).  wf_sampling_coefficient is
\* outside wfes.c, so each entry is kept as the uninterpreted term.
ExtinctionRHS(N, n) ==
  [i \in Indices(n) |-> [pow_one_minus_q_of |-> i + 1, exponent |-> 2 * N]]

\* lines 87-113
IparmSetup ==
  [i \in 0 .. (IparmSize - 1) |->
     CASE i = 0 -> 1 [] i = 1 -> 3 [] i = 2 -> 1 [] i = 5 -> 1 [] i = 7 -> 2
       [] i = 9 -> 20 [] i = 10 -> 1 [] i = 12 -> 1 [] i = 17 -> -1
       [] i = 18 -> -1 [] i = 34 -> 1 [] i = 59 -> 1 [] OTHER -> 0]

\* the statistics structure main hands to wfes: scalars zero, vectors not
\* yet written
wf_statistics_new ==
  [B1 |-> << >>, B2 |-> << >>, N |-> << >>,
   probability_extinction |-> Zero, probability_fixation |-> Zero,
   time_extinction |-> Zero, time_fixation |-> Zero,
   count_before_extinction |-> Zero]

\* one logged call of pardiso_64
Call(ph, a, b, x, status) ==
  [phase |-> ph, n |-> matrix_size, a |-> a, mtx |-> A, mode |-> iparm[11],
   b |-> b, x |-> x, error |-> status]

Printed(via, text, args) == [via |-> via, text |-> text, args |-> args]

ResultFmt == "%PRId64,%g,%g,%g,%g,%g,%g,%g,%g,%g"

(***************************************************************************)
(* wfes(): reduction of the solved vectors                                 *)
(***************************************************************************)
ClampNone(x) == x
\* lines 182-184, 204-206
Clamp(x) == IF DLt(x, Zero) THEN Zero ELSE x

\* lines 180-186
ExtinctionVector(x, n) == [i \in Indices(n) |-> Clamp(x[i])]
FixationVector(B1, n) == [i \in Indices(n) |-> DSub(One, B1[i])]

UnitKeepTail(old, n) == [old EXCEPT ![0] = One]
\* lines 190-193
SojournRHS(old, n) == [i \in Indices(n) |-> IF i = 0 THEN One ELSE Zero]

\* lines 216-220: the accumulation loop from index i on
RECURSIVE Accumulate(_, _, _)
Accumulate(s, i, n) ==
  IF i >= n THEN s
  ELSE Accumulate(
         [s EXCEPT
            !.time_extinction = DAdd(@, DMul(s.B1[i], s.N[i])),
            !.time_fixation = DAdd(@, DMul(s.B2[i], s.N[i])),
            !.count_before_extinction =
               DAdd(@, DMul(DMul(s.N[i], s.B1[i]), FromInt(i + 1)))],
         i + 1, n)

\* lines 221-224
Quotients(s) ==
  [s EXCEPT !.time_extinction = DDiv(@, s.B1[0]),
            !.time_fixation = DDiv(@, s.B2[0]),
            !.count_before_extinction = DDiv(@, s.B1[0])]

GuardsStrict(s) ==
  LET e == IF DLt(s.B1[0], Zero)
           THEN [s EXCEPT !.probability_extinction = Zero,
                          !.time_extinction = NaN]
           ELSE [s EXCEPT !.probability_extinction = s.B1[0]]
  IN  IF DLt(e.B2[0], Zero)
      THEN [e EXCEPT !.probability_fixation = Zero, !.time_fixation = NaN]
      ELSE [e EXCEPT !.probability_fixation = e.B2[0]]
\* lines 226-237
Guards(s) ==
  LET e == IF DLe(s.B1[0], Zero)
           THEN [s EXCEPT !.probability_extinction = Zero,
                          !.time_extinction = NaN]
           ELSE [s EXCEPT !.probability_extinction = s.B1[0]]
  IN  IF DLe(e.B2[0], Zero)
      THEN [e EXCEPT !.probability_fixation = Zero, !.time_fixation = NaN]
      ELSE [e EXCEPT !.probability_fixation = e.B2[0]]

\* lines 215-237
SummaryStatistics(s, n) == Guards(Quotients(Accumulate(s, 0, n)))

(***************************************************************************)
(* main(): parameter validation                                            *)
(***************************************************************************)
\* line 300
PopulationTooLarge(p) == p.population_size > MaxPopulationSize

MutationRateTooLargeForwardOnly(p) ==
  LET max_mutation_rate == DDiv(One, DMul(FromInt(2), FromInt(p.population_size)))
  IN  DLt(max_mutation_rate, p.forward_mutation_rate)
\* lines 305-306
MutationRateTooLarge(p) ==
  LET max_mutation_rate == DDiv(One, DMul(FromInt(2), FromInt(p.population_size)))
  IN  \/ DLt(max_mutation_rate, p.forward_mutation_rate)
      \/ DLt(max_mutation_rate, p.backward_mutation_rate)

(***************************************************************************)
(* Initial state: the command line has been given.                         *)
(***************************************************************************)
Init ==
  /\ pc = "main"
  /\ help \in BOOLEAN
  /\ force \in BOOLEAN
  /\ wf \in [population_size : PopulationSizes,
             selection : Selections,
             forward_mutation_rate : MutationRates,
             backward_mutation_rate : MutationRates,
             dominance_coefficient : Dominances]
  /\ generations_file \in BOOLEAN
  /\ extinction_file \in BOOLEAN
  /\ fixation_file \in BOOLEAN
  /\ matrix_size = 0
  /\ block_size = 0
  /\ A = [built |-> FALSE]
  /\ allocated = {}
  /\ rhs = << >>
  /\ iparm = [i \in 0 .. (IparmSize - 1) |-> 0]
  /\ phase = 0
  /\ error = 0
  /\ calls = << >>
  /\ r = wf_statistics_new
  /\ out = << >>
  /\ files = {}
  /\ exit_status = "running"

(***************************************************************************)
(* main(), lines 267-318: help, parsing, validation, the call of wfes.      *)
(* wf is allocated at line 274, after the help exit and before the         *)
(* validation, and is still live when a parameter error exits; results is  *)
(* allocated at line 316, once the validation has passed.                  *)
(***************************************************************************)
MainStart ==
  /\ pc = "main"
  /\ IF help
     THEN /\ out' = Append(out, Printed("printf", "WFES: Wright-Fisher model solver", << >>))
          /\ exit_status' = "exit(DKL_HELP_EXIT)"
          /\ pc' = "exit"
          /\ UNCHANGED allocated
     ELSE IF ~force /\ PopulationTooLarge(wf)
     THEN /\ out' = out \o
               << Printed("error_print", "The population_size parameter is too large - the computation might take a very long time", << >>),
                  Printed("println", "Use --force to override", << >>) >>
          /\ exit_status' = "exit(DKL_PARAM_ERROR)"
          /\ pc' = "exit"
          /\ allocated' = {"wf"}
     ELSE IF ~force /\ MutationRateTooLarge(wf)
     THEN /\ out' = out \o
               << Printed("error_print", "The mutation rate might violate the Wright-Fisher assumptions", << >>),
                  Printed("println", "Use --force to override", << >>) >>
          /\ exit_status' = "exit(DKL_PARAM_ERROR)"
          /\ pc' = "exit"
          /\ allocated' = {"wf"}
     ELSE /\ allocated' = {"wf", "results"}
          /\ pc' = "wfes"
          /\ UNCHANGED <<out, exit_status>>
  /\ UNCHANGED <<help, force, wf, generations_file, extinction_file,
                 fixation_file, matrix_size, block_size, A, rhs, iparm,
                 phase, error, calls, r, files>>

(***************************************************************************)
(* wfes(), lines 41-63: dimension, buffers, block size                     *)
(***************************************************************************)
WfesEnter ==
  /\ pc = "wfes"
  /\ matrix_size' = MatrixSize(wf.population_size)
  /\ block_size' = BlockSize(MatrixSize(wf.population_size))
  /\ allocated' = allocated \cup {"rhs", "workspace"}
  /\ pc' = "assemble"
  /\ UNCHANGED <<help, force, wf, generations_file, extinction_file,
                 fixation_file, A, rhs, iparm, phase, error, calls, r, out,
                 files, exit_status>>

(***************************************************************************)
(* wfes(), lines 73-127: matrix, Extinction RHS, control parameters        *)
(***************************************************************************)
WfesAssemble ==
  /\ pc = "assemble"
  /\ matrix_size <= MaxDim
  /\ A' = [built |-> TRUE, by |-> "wf_matrix_csr", rows |-> matrix_size,
           block_size |-> block_size, wf |-> wf]
  /\ allocated' = allocated \cup {"A"}
  /\ rhs' = ExtinctionRHS(wf.population_size, matrix_size)
  /\ iparm' = IparmSetup
  /\ error' = 0
  /\ pc' = "analyze"
  /\ UNCHANGED <<help, force, wf, generations_file, extinction_file,
                 fixation_file, matrix_size, block_size, phase, calls, r,
                 out, files, exit_status>>

\* the message is printed and the run goes on to the next step
AbortWithoutExit(ph, text, status) ==
  /\ out' = Append(out, Printed("printf", text, <<status>>))
  /\ exit_status' = exit_status
  /\ pc' = (CASE pc = "analyze" -> "factorize"
             [] pc = "factorize" -> "solve_forward"
             [] pc = "solve_forward" -> "solve_transpose"
             [] OTHER -> "release")
\* the fatal-abort arm of a solver call: message, exit(phase)
Abort(ph, text, status) ==
  /\ out' = Append(out, Printed("printf", text, <<status>>))
  /\ exit_status' = (CASE ph = PhaseAnalyze -> "exit(11)"
                       [] ph = PhaseFactorize -> "exit(22)"
                       [] OTHER -> "exit(33)")
  /\ pc' = "exit"

(***************************************************************************)
(* wfes(), lines 130-141: symbolic factorization                           *)
(***************************************************************************)
Analyze ==
  /\ pc = "analyze"
  /\ phase' = PhaseAnalyze
  /\ \E status \in Statuses :
       /\ calls' = Append(calls, Call(PhaseAnalyze, "A->data", ddum, ddum, status))
       /\ error' = status
       /\ IF status # 0
          THEN Abort(PhaseAnalyze, "ERROR during symbolic factorization: %PRId64", status)
          ELSE /\ pc' = "factorize"
               /\ UNCHANGED <<out, exit_status>>
  /\ UNCHANGED <<help, force, wf, generations_file, extinction_file,
                 fixation_file, matrix_size, block_size, A, allocated, rhs,
                 iparm, r, files>>

(***************************************************************************)
(* wfes(), lines 148-159: numeric factorization                            *)
(***************************************************************************)
Factorize ==
  /\ pc = "factorize"
  /\ phase' = PhaseFactorize
  /\ \E status \in Statuses :
       /\ calls' = Append(calls, Call(PhaseFactorize, "A->data", ddum, ddum, status))
       /\ error' = status
       /\ IF status # 0
          THEN Abort(PhaseFactorize, "ERROR during numeric factorization: %PRId64", status)
          ELSE /\ pc' = "solve_forward"
               /\ UNCHANGED <<out, exit_status>>
  /\ UNCHANGED <<help, force, wf, generations_file, extinction_file,
                 fixation_file, matrix_size, block_size, A, allocated, rhs,
                 iparm, r, files>>

(***************************************************************************)
(* wfes(), lines 166-194: forward solve, B1 and B2, the Sojourn RHS        *)
(***************************************************************************)
SolveForward ==
  /\ pc = "solve_forward"
  /\ phase' = PhaseSolve
  /\ LET ip == [iparm EXCEPT ![11] = ModeForward]
     IN  \E status \in Statuses :
           /\ error' = status
           /\ IF status # 0
              THEN /\ calls' = Append(calls,
                         [Call(PhaseSolve, "A->data", rhs, ddum, status)
                            EXCEPT !.mode = ip[11]])
                   /\ Abort(PhaseSolve, "ERROR during solution: %PRId64", status)
                   /\ iparm' = ip
                   /\ UNCHANGED <<rhs, r>>
              ELSE \E x \in RawVectors(matrix_size, RawB1Values) :
                     LET B1 == ExtinctionVector(x, matrix_size)
                     IN  /\ calls' = Append(calls,
                               [Call(PhaseSolve, "A->data", rhs, x, status)
                                  EXCEPT !.mode = ip[11]])
                         /\ r' = [r EXCEPT !.B1 = B1,
                                           !.B2 = FixationVector(B1, matrix_size)]
                         /\ out' = Append(out, Printed("println", "Solution successful!", << >>))
                         /\ rhs' = SojournRHS(x, matrix_size)
                         /\ iparm' = [ip EXCEPT ![11] = ModeTranspose]
                         /\ pc' = "solve_transpose"
                         /\ UNCHANGED exit_status
  /\ UNCHANGED <<help, force, wf, generations_file, extinction_file,
                 fixation_file, matrix_size, block_size, A, allocated, files>>

(***************************************************************************)
(* wfes(), lines 195-237: transpose solve, N, the summary statistics       *)
(***************************************************************************)
SolveTranspose ==
  /\ pc = "solve_transpose"
  /\ \E status \in Statuses :
       /\ error' = status
       /\ IF status # 0
          THEN /\ calls' = Append(calls, Call(PhaseSolve, "A->data", rhs, ddum, status))
               /\ Abort(PhaseSolve, "ERROR during solution: %PRId64", status)
               /\ UNCHANGED <<rhs, r>>
          ELSE \E x \in RawVectors(matrix_size, RawNValues) :
                 /\ calls' = Append(calls, Call(PhaseSolve, "A->data", rhs, x, status))
                 /\ rhs' = x
                 /\ r' = SummaryStatistics(
                           [r EXCEPT !.N = [i \in Indices(matrix_size) |-> Clamp(x[i])]],
                           matrix_size)
                 /\ pc' = "release"
                 /\ UNCHANGED <<out, exit_status>>
  /\ UNCHANGED <<help, force, wf, generations_file, extinction_file,
                 fixation_file, matrix_size, block_size, A, allocated, iparm,
                 phase, files>>

(***************************************************************************)
(* wfes(), lines 239-260: release of the solver memory and of the buffers  *)
(***************************************************************************)
Release ==
  /\ pc = "release"
  /\ phase' = PhaseRelease
  /\ \E status \in Statuses :
       /\ calls' = Append(calls, Call(PhaseRelease, "ddum", ddum, ddum, status))
       /\ error' = status
  /\ allocated' = allocated \ {"rhs", "workspace", "A"}
  /\ pc' = "output"
  /\ UNCHANGED <<help, force, wf, generations_file, extinction_file,
                 fixation_file, matrix_size, block_size, A, rhs, iparm, r,
                 out, files, exit_status>>

\* lines 326-333, 336-343, 346-353: one line, the entries in ascending order
VectorFile(name, v, n) == [name |-> name, line |-> [k \in 1 .. n |-> v[k - 1]]]

(***************************************************************************)
(* main(), lines 320-361: the result line, the vector files, return 0      *)
(***************************************************************************)
Output ==
  /\ pc = "output"
  /\ out' = Append(out, Printed("printf", ResultFmt,
               << wf.population_size, wf.selection, wf.forward_mutation_rate,
                  wf.backward_mutation_rate, wf.dominance_coefficient,
                  r.probability_extinction, r.probability_fixation,
                  r.time_extinction, r.time_fixation,
                  r.count_before_extinction >>))
  /\ \E gOpen \in (IF generations_file THEN BOOLEAN ELSE {FALSE}),
        eOpen \in (IF extinction_file THEN BOOLEAN ELSE {FALSE}),
        fOpen \in (IF fixation_file THEN BOOLEAN ELSE {FALSE}) :
       files' = (IF gOpen THEN {VectorFile("generations_file", r.N, matrix_size)} ELSE {})
                  \cup (IF eOpen THEN {VectorFile("extinction_file", r.B1, matrix_size)} ELSE {})
                  \cup (IF fOpen THEN {VectorFile("fixation_file", r.B2, matrix_size)} ELSE {})
  /\ allocated' = allocated \ {"wf", "results"}
  /\ exit_status' = "return 0"
  /\ pc' = "exit"
  /\ UNCHANGED <<help, force, wf, generations_file, extinction_file,
                 fixation_file, matrix_size, block_size, A, rhs, iparm,
                 phase, error, calls, r>>

Next ==
  \/ MainStart
  \/ WfesEnter
  \/ WfesAssemble
  \/ Analyze
  \/ Factorize
  \/ SolveForward
  \/ SolveTranspose
  \/ Release
  \/ Output

Spec == Init /\ [][Next]_vars

(***************************************************************************)
(* Properties.                                                             *)
(***************************************************************************)
CallsOf(ph) == {k \in DOMAIN calls : calls[k].phase = ph}
Succeeded == pc = "exit" /\ exit_status = "return 0"
SolverAborted == pc = "exit" /\ exit_status \in {"exit(11)", "exit(22)", "exit(33)"}
\* both solves have returned 0 and the statistics are reduced
Reduced == pc \in {"release", "output"} \/ Succeeded
ResultLinePrinted == \E k \in DOMAIN out : out[k].text = ResultFmt
WfesCalled == pc \in {"wfes", "assemble", "analyze", "factorize", "solve_forward",
                      "solve_transpose", "release", "output"}
                 \/ Succeeded \/ SolverAborted
NonNegative(x) == x.den > 0 /\ x.num >= 0
AtMostOne(x) == x.den > 0 /\ x.num <= x.den

\* sum of f[0..k], from the last index down
RECURSIVE SigmaTo(_, _)
SigmaTo(f, k) == IF k < 0 THEN Zero ELSE DAdd(SigmaTo(f, k - 1), f[k])
\* x is the finite quotient s / b
IsQuotient(x, s, b) ==
  /\ x.den > 0 /\ s.den > 0 /\ b.den > 0 /\ b.num # 0
  /\ x.num * s.den * b.num = s.num * b.den * x.den

\* C1: in every run that reaches the first solver call, Release (phase -1)
\* has been invoked exactly once when the process ends, on the success path
\* and on every fatal-abort path.
C1_ReleaseOnceOnEveryExit ==
  (pc = "exit" /\ Len(calls) > 0) => Cardinality(CallsOf(PhaseRelease)) = 1

\* C2: a nonzero status from Analyze, Factorize or either Solve ends the
\* run at that call: it is the last solver call (no later phase, no retry),
\* the process has exited with the phase as its code, the summary statistics
\* are untouched, and neither the result line nor a vector file exists.
C2_AbortIsImmediate ==
  \A k \in DOMAIN calls :
    (calls[k].error # 0 /\ calls[k].phase # PhaseRelease) =>
      /\ k = Len(calls)
      /\ SolverAborted
      /\ ~ResultLinePrinted
      /\ files = {}
      /\ r.probability_extinction = wf_statistics_new.probability_extinction
      /\ r.probability_fixation = wf_statistics_new.probability_fixation
      /\ r.time_extinction = wf_statistics_new.time_extinction
      /\ r.time_fixation = wf_statistics_new.time_fixation
      /\ r.count_before_extinction = wf_statistics_new.count_before_extinction
      /\ r.N = wf_statistics_new.N
C2_Witness ==
  /\ SolverAborted /\ Len(calls) = 4
  /\ calls[4].phase = PhaseSolve /\ calls[4].error # 0

\* C3: Analyze and Factorize are each invoked at most once, exactly once on
\* a run that succeeds; Analyze precedes Factorize, Factorize precedes every
\* Solve, and all calls are made against the one assembled matrix.
C3_AnalyzeFactorizeOnceInOrder ==
  /\ Cardinality(CallsOf(PhaseAnalyze)) <= 1
  /\ Cardinality(CallsOf(PhaseFactorize)) <= 1
  /\ Succeeded => /\ Cardinality(CallsOf(PhaseAnalyze)) = 1
                  /\ Cardinality(CallsOf(PhaseFactorize)) = 1
  /\ \A f \in CallsOf(PhaseFactorize) : \E a \in CallsOf(PhaseAnalyze) : a < f
  /\ \A s \in CallsOf(PhaseSolve) : \E f \in CallsOf(PhaseFactorize) : f < s
  /\ \A k \in DOMAIN calls :
       /\ calls[k].mtx = A /\ A.built /\ A.rows = MatrixSize(wf.population_size)
       /\ calls[k].n = MatrixSize(wf.population_size)
C3_Witness ==
  /\ Succeeded
  /\ Len(calls) = 5
  /\ calls[1].phase = PhaseAnalyze /\ calls[2].phase = PhaseFactorize

\* C4: once both solves have succeeded, Solve has been invoked exactly twice,
\* consecutively: first with iparm[11] = 0 and the Extinction RHS, then with
\* iparm[11] = 2 and the unit vector (1 at index 0, 0 elsewhere), whatever
\* the first solve wrote into the rhs buffer.
C4_TwoSolvesForwardThenTranspose ==
  /\ pc = "solve_transpose" =>
       /\ iparm[11] = ModeTranspose
       /\ DOMAIN rhs = Indices(matrix_size)
       /\ \A i \in Indices(matrix_size) : rhs[i] = (IF i = 0 THEN One ELSE Zero)
  /\ Reduced =>
       /\ CallsOf(PhaseSolve) = {3, 4}
       /\ calls[3].mode = 0
       /\ DOMAIN calls[3].b = Indices(matrix_size)
       /\ \A i \in Indices(matrix_size) :
            calls[3].b[i] = [pow_one_minus_q_of |-> i + 1,
                             exponent |-> 2 * wf.population_size]
       /\ calls[4].mode = 2
       /\ DOMAIN calls[4].b = Indices(matrix_size)
       /\ \A i \in Indices(matrix_size) :
            calls[4].b[i] = (IF i = 0 THEN One ELSE Zero)
C4_Witness ==
  /\ Succeeded
  /\ calls[3].x[0] # One
  /\ calls[3].x[1] # Zero
  /\ calls[4].b[0] = One /\ calls[4].b[1] = Zero

\* C5: after the forward solve B1[i] >= 0 and B1[i] + B2[i] = 1 at every
\* index, B1 being the raw vector with its negative entries replaced by 0;
\* after the transpose solve N[i] >= 0 likewise.
C5_ClampedVectors ==
  /\ (pc = "solve_transpose" \/ Reduced) =>
       \A i \in Indices(matrix_size) :
         /\ NonNegative(r.B1[i])
         /\ r.B1[i] = (IF calls[3].x[i].num < 0 THEN Zero ELSE calls[3].x[i])
         /\ r.B2[i].den > 0
         /\ r.B1[i].num * r.B2[i].den + r.B2[i].num * r.B1[i].den
              = r.B1[i].den * r.B2[i].den
  /\ Reduced =>
       \A i \in Indices(matrix_size) :
         /\ NonNegative(r.N[i])
         /\ r.N[i] = (IF calls[4].x[i].num < 0 THEN Zero ELSE calls[4].x[i])
C5_Witness ==
  /\ Succeeded
  /\ calls[3].x[1].num < 0 /\ r.B1[1] = Zero /\ r.B2[1] = One
  /\ calls[4].x[2].num < 0 /\ r.N[2] = Zero

\* C6: after a successful run B1[0] and B2[0] are each in [0, 1], and the
\* reported probabilities are each in [0, 1] and sum to 1.
C6_HeadProbabilitiesInUnitInterval ==
  Succeeded =>
    /\ NonNegative(r.B1[0]) /\ AtMostOne(r.B1[0])
    /\ NonNegative(r.B2[0]) /\ AtMostOne(r.B2[0])
    /\ NonNegative(r.probability_extinction) /\ AtMostOne(r.probability_extinction)
    /\ NonNegative(r.probability_fixation) /\ AtMostOne(r.probability_fixation)
    /\ DAdd(r.probability_extinction, r.probability_fixation) = One

\* C7: once the statistics are reduced, B1[0] <= 0 gives probability 0 and
\* a not-a-number time, otherwise the probability is B1[0] and the time is
\* (sum_i B1[i]*N[i]) / B1[0]; the same for B2.  Release is still invoked
\* and the run still ends with the result line carrying these values.
C7_DegenerateResultsAreValues ==
  Reduced =>
    LET last == matrix_size - 1
        sumExt == SigmaTo([i \in Indices(matrix_size) |-> DMul(r.B1[i], r.N[i])], last)
        sumFix == SigmaTo([i \in Indices(matrix_size) |-> DMul(r.B2[i], r.N[i])], last)
    IN  /\ IF r.B1[0].num <= 0
           THEN r.probability_extinction = Zero /\ IsNaN(r.time_extinction)
           ELSE /\ r.probability_extinction = r.B1[0]
                /\ IsQuotient(r.time_extinction, sumExt, r.B1[0])
        /\ IF r.B2[0].num <= 0
           THEN r.probability_fixation = Zero /\ IsNaN(r.time_fixation)
           ELSE /\ r.probability_fixation = r.B2[0]
                /\ IsQuotient(r.time_fixation, sumFix, r.B2[0])
        /\ pc = "output" => calls[Len(calls)].phase = PhaseRelease
        /\ Succeeded =>
             /\ calls[Len(calls)].phase = PhaseRelease
             /\ out[Len(out)].text = ResultFmt
             /\ out[Len(out)].args[6] = r.probability_extinction
             /\ out[Len(out)].args[7] = r.probability_fixation
             /\ out[Len(out)].args[8] = r.time_extinction
             /\ out[Len(out)].args[9] = r.time_fixation
C7_Witness ==
  /\ Succeeded
  /\ r.B1[0] = Zero
  /\ r.B1[1].num > 0 /\ r.N[1].num > 0
  /\ r.probability_extinction = Zero
  /\ IsNaN(r.time_extinction)
  /\ ~IsNaN(r.time_fixation)

\* C8: once the statistics are reduced, count_before_extinction is
\* not-a-number whenever B1[0] <= 0, and (sum_i N[i]*B1[i]*(i+1)) / B1[0]
\* otherwise.
C8_CountUndefinedUnderSameGuard ==
  Reduced =>
    LET sumCount == SigmaTo([i \in Indices(matrix_size) |->
                               DMul(DMul(r.N[i], r.B1[i]), FromInt(i + 1))],
                            matrix_size - 1)
    IN  IF r.B1[0].num <= 0
        THEN IsNaN(r.count_before_extinction)
        ELSE IsQuotient(r.count_before_extinction, sumCount, r.B1[0])

\* C9: without the force flag, a population size above 500000 or a mutation
\* rate above 1/(2N) ends main with the parameter error before wfes is
\* called (no solver call, no result line); with the force flag wfes is
\* called whatever the parameter values.  (The help flag is handled before
\* the parameters are looked at.)
C9_ValidationBeforeCore ==
  LET N == wf.population_size
      u == wf.forward_mutation_rate
      v == wf.backward_mutation_rate
      invalid == \/ N > 500000
                 \/ u.num * 2 * N > u.den
                 \/ v.num * 2 * N > v.den
  IN  /\ (~force /\ invalid) =>
           /\ ~WfesCalled
           /\ calls = << >>
           /\ ~ResultLinePrinted
           /\ (pc # "main" /\ ~help) =>
                pc = "exit" /\ exit_status = "exit(DKL_PARAM_ERROR)"
      /\ (force /\ ~help /\ pc # "main") =>
           WfesCalled /\ exit_status # "exit(DKL_PARAM_ERROR)"
C9_Witness ==
  /\ pc = "exit" /\ exit_status = "exit(DKL_PARAM_ERROR)"
  /\ wf.population_size <= 500000
  /\ wf.forward_mutation_rate = Zero
  /\ wf.backward_mutation_rate = D(1, 2)

\* C10: with d = 2N - 1, the block size handed to the matrix builder is d
\* when d does not exceed 100 and the integer part of d/10 when it does; the
\* tests d >= 100 and d > 100 agree, and 1 <= block_size <= d.
C10_BlockSize ==
  (WfesCalled /\ pc # "wfes") =>
    LET d == 2 * wf.population_size - 1
    IN  /\ matrix_size = d
        /\ IF d > 100
           THEN 10 * block_size <= d /\ d < 10 * (block_size + 1)
           ELSE block_size = d
        /\ (d >= 100) <=> (d > 100)
        /\ 1 <= block_size /\ block_size <= d
        /\ A.built => A.block_size = block_size
C10_Witness ==
  /\ pc = "assemble"
  /\ matrix_size = 101
  /\ block_size = 10

====
